---- MODULE Spec2Model ----
(***************************************************************************)
(* A model of the conversational shopping assistant of                     *)
(* src/src/ecommerce_agent.py: the construction of EcommerceAgent, the     *)
(* read-eval-print loop of run(), the output interpreter                   *)
(* (_handle_product_details, _handle_search_products) and ProductDatabase. *)
(*                                                                         *)
(* Text is a sequence of tokens.  A token is one character, except that    *)
(* the four fixed words the interpreter looks for are one token each:      *)
(* none of them overlaps itself or another, so finding and splitting on    *)
(* them works on tokens exactly as it does on characters.                  *)
(***************************************************************************)
EXTENDS Integers, Sequences, FiniteSets, TLC

\* ------------------------------------------------------------------ bounds
MaxLen == 5          \* longest reply text handed to a handler, in tokens
MaxTurns == 2        \* lines other than the exit keyword read by one run()
MaxToolCalls == 1    \* tools the agent executor runs within one invoke

\* ------------------------------------------------------------------- text
QUOTE == "\""
KwDetails == "get_product_details"
KwSearch == "search_products"
ArgDetails == "product_id="
ArgSearch == "search_term="

DetailsMarker == <<ArgDetails, QUOTE>>
SearchMarker == <<ArgSearch, QUOTE>>

\* The exit keyword of run() is the two characters U+9000 U+51FA; each is one
\* token here, written by its code point.
ExitKeyword == <<"U+9000", "U+51FA">>

\* str.lower(): only cased letters change.
LowerChar(c) == IF c = "H" THEN "h" ELSE c
Lower(s) == [i \in 1..Len(s) |-> LowerChar(s[i])]

\* The first index at or after `from` where `sub` occurs in s, 0 when none.
OccursAt(s, sub, i) ==
    /\ i >= 1
    /\ i + Len(sub) - 1 <= Len(s)
    /\ \A k \in 1..Len(sub) : s[i + k - 1] = sub[k]

FindFrom(s, sub, from) ==
    LET hits == {i \in from..Len(s) : OccursAt(s, sub, i)}
    IN  IF hits = {} THEN 0 ELSE CHOOSE i \in hits : \A j \in hits : i <= j

\* `sub in s`
Contains(s, sub) == FindFrom(s, sub, 1) # 0

\* str.split(sep): the pieces between the non-overlapping occurrences of sep,
\* scanned left to right; always at least one piece.  (s ranges over the one
\* value of text, so that the argument is worked out once.)
RECURSIVE Split(_, _)
Split(text, sep) ==
    CHOOSE pieces \in
        { LET i == FindFrom(s, sep, 1)
          IN  IF i = 0
              THEN <<s>>
              ELSE <<SubSeq(s, 1, i - 1)>>
                       \o Split(SubSeq(s, i + Len(sep), Len(s)), sep)
          : s \in {text} } : TRUE

\* A variant that takes the last piece, output.split(marker)[-1], not the
\* second.
ExtractLastArgument(output, marker) ==
    LET parts == Split(output, marker)
    IN  IF Len(parts) < 2
        THEN [ok |-> FALSE, token |-> << >>]
        ELSE [ok |-> TRUE, token |-> Split(parts[Len(parts)], <<QUOTE>>)[1]]

\* output.split(marker)[1].split('"')[0]; [1] raises IndexError when the
\* marker does not occur.
ExtractArgument(output, marker) ==
    LET parts == Split(output, marker)
    IN  IF Len(parts) < 2
        THEN [ok |-> FALSE, token |-> << >>]
        ELSE [ok |-> TRUE, token |-> Split(parts[2], <<QUOTE>>)[1]]

\* ---------------------------------------------------------------- numbers
Digits == <<"0", "1", "2", "3", "4", "5", "6", "7", "8", "9">>
IsDigit(c) == \E d \in 1..10 : Digits[d] = c
DigitValue(c) == (CHOOSE d \in 1..10 : Digits[d] = c) - 1
IsSpace(c) == c = " "

RECURSIVE StripLeft(_)
StripLeft(s) == IF s # << >> /\ IsSpace(Head(s)) THEN StripLeft(Tail(s)) ELSE s
RECURSIVE StripRight(_)
StripRight(s) ==
    IF s # << >> /\ IsSpace(s[Len(s)]) THEN StripRight(SubSeq(s, 1, Len(s) - 1)) ELSE s

RECURSIVE DigitsValue(_)
DigitsValue(s) ==
    IF s = << >> THEN 0
    ELSE 10 * DigitsValue(SubSeq(s, 1, Len(s) - 1)) + DigitValue(s[Len(s)])

\* int(text): surrounding blanks dropped, an optional sign, then digits only;
\* anything else raises ValueError.
ParseInt(text) ==
    LET t == StripRight(StripLeft(text))
        signed == t # << >> /\ t[1] \in {"-", "+"}
        body == IF signed THEN Tail(t) ELSE t
    IN  IF body = << >> \/ \E i \in 1..Len(body) : ~IsDigit(body[i])
        THEN [ok |-> FALSE, value |-> 0]
        ELSE [ok |-> TRUE,
              value |-> IF signed /\ t[1] = "-" THEN 0 - DigitsValue(body)
                        ELSE DigitsValue(body)]

\* The full-width colon U+FF1A the score reply is split on.
FULLCOLON == "U+FF1A"

\* int(match_score.split(FULLCOLON)[1]) if FULLCOLON in match_score
\* else int(match_score)
ParseScore(match_score) ==
    IF Contains(match_score, <<FULLCOLON>>)
    THEN ParseInt(Split(match_score, <<FULLCOLON>>)[2])
    ELSE ParseInt(match_score)

\* AgentConfig.min_match_score
min_match_score == 5

\* `if score >= 1`
ScoreAccepted(score) == score >= 1

\* ------------------------------------------------------------ the catalog
\* {**a, **b}: the keys of both, b's value where both have the key.
Merge(a, b) ==
    [k \in DOMAIN a \cup DOMAIN b |-> IF k \in DOMAIN b THEN b[k] ELSE a[k]]

\* products.json as json.load returns it: identifier -> record, in file order.
ProductIds == << <<"a">>, <<"a", "b">> >>
IdSet == {ProductIds[i] : i \in 1..Len(ProductIds)}
Catalog ==
    [id \in IdSet |->
        [name |-> <<"n">> \o id, price |-> 10 * Len(id), stock |-> Len(id),
         description |-> <<"d">> \o id]]

None == [none |-> TRUE]
IsNone(v) == "none" \in DOMAIN v

\* A variant that matches a key by prefix instead of exactly.
IsPrefix(p, k) == Len(p) <= Len(k) /\ SubSeq(k, 1, Len(p)) = p
get_product_details_by_prefix(products, product_id) ==
    LET hits == {k \in DOMAIN products : IsPrefix(product_id, k)}
    IN  IF hits = {} THEN None
        ELSE LET k == CHOOSE k \in hits : \A j \in hits : Len(k) <= Len(j)
             IN  Merge([id |-> k], products[k])

\* ProductDatabase.get_product_details
get_product_details(products, product_id) ==
    IF product_id \in DOMAIN products
    THEN Merge([id |-> product_id], products[product_id])
    ELSE None

\* results.append({"id": id, **product})
ResultRecord(products, id) == Merge([id |-> id], products[id])

\* A variant of the loop body that writes the identifier into the stored
\* record: product["id"] = id; results.append(product).
StoreAfterTagging(products, id) ==
    [products EXCEPT ![id] = Merge([id |-> id], @)]

\* The catalog after the loop body of search_products for product id: the
\* appended record is a new dict, the stored one is only read.
StoreAfterAppend(products, id) == products

\* `if search_term:`
TermAlwaysUsable(search_term) == TRUE
TermUsable(search_term) == search_term # << >>

\* `if product_info:` - None and the empty dict are false.
TruthyDict(v) == ~IsNone(v) /\ DOMAIN v # {}

\* `if search_results:` - the empty list is false.
TruthyList(v) == Len(v) > 0

\* An argument that starts with this token stands for a value that is not a
\* string: a JSON array the model put into its function call.
LIST == "<list>"

\* `product_id in self.products` hashes the argument: a str is hashable, a
\* list raises TypeError.
Hashable(product_id) == product_id = << >> \/ product_id[1] # LIST

\* _safe_get_product_details: the store's answer, None when the store raises.
safe_get_product_details(products, product_id) ==
    IF Hashable(product_id)
    THEN get_product_details(products, product_id)
    ELSE None

\* A variant that logs the failure and goes on.
load_environment_swallowed(keySet, loggerAssigned) == "none"

\* _load_environment: "none" when the key is set; otherwise ValueError is
\* raised, and the except clause logs through self.logger before re-raising:
\* with no logger attribute yet, that access raises AttributeError instead.
load_environment(keySet, loggerAssigned) ==
    IF keySet THEN "none"
    ELSE IF loggerAssigned THEN "ValueError" ELSE "AttributeError"

\* ----------------------------------------------------------------- inputs
\* Lines typed at the prompt.
Lines == {ExitKeyword, <<"U+9000", "H">>}

\* A variant that accepts any line starting like the exit keyword.
IsExitByPrefix(line) == line # << >> /\ Lower(line)[1] = ExitKeyword[1]

\* user_input.lower() == exit keyword
IsExit(line) == Lower(line) = ExitKeyword

\* Replies of the agent executor to run().
Replies ==
    { <<"h", "i">>,
      <<KwDetails, "(", ArgDetails, QUOTE, "a", QUOTE, ")">>,
      <<KwDetails, "(", ArgDetails, QUOTE, "b", QUOTE, ")">>,
      <<KwDetails, "(", ArgDetails, QUOTE, QUOTE, ")">>,
      <<KwDetails, "(", ArgDetails, "a", ")">>,
      <<KwSearch, "(", ArgSearch, QUOTE, "a", QUOTE, ")">>,
      <<KwSearch, "(", ArgSearch, QUOTE, QUOTE, ")">>,
      <<KwSearch, KwDetails, ArgSearch, QUOTE, "a", QUOTE>>,
      <<KwSearch>> }

\* Texts a handler is called with directly: every text of at most MaxLen
\* tokens over the tokens the handlers tell apart.
TextTokens == {ArgDetails, ArgSearch, QUOTE, "a"}
RECURSIVE TextsOfLen(_)
TextsOfLen(n) ==
    IF n = 0 THEN {<< >>}
    ELSE {Append(t, c) : t \in TextsOfLen(n - 1), c \in TextTokens}
Texts == UNION {TextsOfLen(n) : n \in 0..MaxLen}

\* Arguments the agent executor hands to a tool.
ToolArgs == {<< >>, <<"a">>, <<"A">>, <<"b">>, <<"a", "b">>, <<LIST, "a">>}

\* Replies of the model to a scoring prompt.
ScoreReplies ==
    { <<"0">>, <<"1">>, <<"6">>, <<"x">>,
      <<"s", FULLCOLON, " ", "7">>, <<"s", FULLCOLON>> }

ZeroCalls == [chat |-> 0, enhance |-> 0, score |-> 0, summary |-> 0]
NoSearch ==
    [caller |-> "none", idx |-> 0, replies |-> << >>, results |-> << >>,
     done |-> FALSE, raised |-> FALSE]
NoDetails == [called |-> FALSE, arg |-> << >>, result |-> None]
NoLoadEnv == [called |-> FALSE, keySet |-> TRUE, exc |-> "none"]

\* ------------------------------------------------------------------ state
VARIABLES
    pc,         \* where the program is
    entry,      \* "run": handlers are called by run(); "direct": by a caller
    apiKey,     \* DEEPSEEK_API_KEY is set in the environment
    hasLogger,  \* self.logger has been assigned
    products,   \* ProductDatabase.products
    loadEnv,    \* the last call of _load_environment and what it raised
    escaped,    \* the exception that left the program's entry point
    reads,      \* calls of input()
    turns,      \* lines other than the exit keyword read so far
    userInput,  \* the line last read
    output,     \* the reply the interpreter works on
    history,    \* the conversation memory
    handler,    \* the branch of the interpreter that took this turn's reply
    lookups,    \* product-store lookups of the interpreter this turn
    details,    \* the last get_product_details call: argument and result
    toolCalls,  \* tools the executor has run within this invoke
    calls,      \* outbound calls to the remote model this turn, by purpose
    inflight,   \* outbound calls sent and not yet answered
    logged,     \* what this turn logged or printed
    search      \* the running (or last) search_products call

vars ==
    <<pc, entry, apiKey, hasLogger, products, loadEnv, escaped, reads, turns,
      userInput, output, history, handler, lookups, details, toolCalls,
      calls, inflight, logged, search>>

turnVars ==
    <<output, handler, lookups, details, toolCalls, calls, logged, search>>
agentVars == <<entry, apiKey, hasLogger, products, loadEnv>>
loopVars == <<reads, turns, userInput, history>>

Fresh ==
    /\ escaped = "none"
    /\ reads = 0
    /\ turns = 0
    /\ userInput = << >>
    /\ history = << >>
    /\ lookups = << >>
    /\ details = NoDetails
    /\ toolCalls = 0
    /\ calls = ZeroCalls
    /\ inflight = 0
    /\ logged = {}
    /\ search = NoSearch

\* Before `agent = EcommerceAgent()` of the main block.
Init ==
    /\ pc = "start"
    /\ entry = "run"
    /\ apiKey \in BOOLEAN
    /\ hasLogger = FALSE
    /\ products = << >>
    /\ loadEnv = NoLoadEnv
    /\ output = << >>
    /\ handler = "none"
    /\ Fresh

\* A constructed agent whose handler is called with a text, as the tests do.
InitDirect ==
    /\ pc \in {"h_details", "h_search"}
    /\ entry = "direct"
    /\ apiKey = TRUE
    /\ hasLogger = TRUE
    /\ products = Catalog
    /\ loadEnv = [called |-> TRUE, keySet |-> TRUE, exc |-> "none"]
    /\ output \in Texts
    /\ handler = IF pc = "h_details" THEN "details" ELSE "search"
    /\ Fresh

\* Where control goes when a handler returns.
ReturnPc == IF entry = "run" THEN "prompt" ELSE "returned"

\* ----------------------------------------------------------- construction
\* EcommerceAgent.__init__: _load_environment first, the logger last.
Construct ==
    /\ pc = "start"
    /\ LET exc == load_environment(apiKey, hasLogger)
       IN  /\ loadEnv' = [called |-> TRUE, keySet |-> apiKey, exc |-> exc]
           /\ IF exc # "none"
              THEN /\ escaped' = exc
                   /\ pc' = "crashed"
                   /\ UNCHANGED <<products, hasLogger>>
              ELSE /\ products' = Catalog
                   /\ hasLogger' = TRUE
                   /\ pc' = "constructed"
                   /\ UNCHANGED escaped
    /\ UNCHANGED <<entry, apiKey, inflight>>
    /\ UNCHANGED loopVars
    /\ UNCHANGED turnVars

\* agent._load_environment() on a constructed agent, with the environment the
\* caller set up (tests/ecommerce_agent.py_test.py patches os.getenv).
CallLoadEnvironment ==
    /\ pc = "constructed"
    /\ \E keySet \in BOOLEAN :
          loadEnv' = [called |-> TRUE, keySet |-> keySet,
                      exc |-> load_environment(keySet, hasLogger)]
    /\ UNCHANGED <<pc, entry, apiKey, hasLogger, products, escaped, inflight>>
    /\ UNCHANGED loopVars
    /\ UNCHANGED turnVars

\* agent.run(): the welcome line, then the loop.
Run ==
    /\ pc = "constructed"
    /\ pc' = "prompt"
    /\ UNCHANGED <<escaped, inflight>>
    /\ UNCHANGED agentVars
    /\ UNCHANGED loopVars
    /\ UNCHANGED turnVars

\* ------------------------------------------------------------------- run()
\* A variant that forwards the line to the executor before the exit test.
ReadInputTestsLate ==
    /\ pc = "prompt"
    /\ \E line \in Lines :
          /\ IsExit(line) \/ turns < MaxTurns
          /\ userInput' = line
          /\ reads' = reads + 1
          /\ IF IsExit(line)
             THEN /\ pc' = "done"
                  /\ turns' = turns
                  /\ calls' = [ZeroCalls EXCEPT !.chat = 1]
             ELSE /\ pc' = "executor"
                  /\ turns' = turns + 1
                  /\ calls' = ZeroCalls
    /\ output' = << >>
    /\ handler' = "none"
    /\ lookups' = << >>
    /\ details' = NoDetails
    /\ toolCalls' = 0
    /\ logged' = {}
    /\ search' = NoSearch
    /\ UNCHANGED <<escaped, inflight, history>>
    /\ UNCHANGED agentVars

\* input(), the exit test, and the start of a turn.
ReadInput ==
    /\ pc = "prompt"
    /\ \E line \in Lines :
          /\ IsExit(line) \/ turns < MaxTurns
          /\ userInput' = line
          /\ reads' = reads + 1
          /\ IF IsExit(line)
             THEN pc' = "done" /\ turns' = turns
             ELSE pc' = "executor" /\ turns' = turns + 1
    /\ output' = << >>
    /\ handler' = "none"
    /\ lookups' = << >>
    /\ details' = NoDetails
    /\ toolCalls' = 0
    /\ calls' = ZeroCalls
    /\ logged' = {}
    /\ search' = NoSearch
    /\ UNCHANGED <<escaped, inflight, history>>
    /\ UNCHANGED agentVars

\* An outbound call of the given purpose is sent; the caller blocks at `wait`.
Invoke(purpose, wait) ==
    /\ inflight' = inflight + 1
    /\ calls' = [calls EXCEPT ![purpose] = @ + 1]
    /\ pc' = wait

\* A variant of run() without the except clause: the exception leaves run().
RunLetsEscape ==
    /\ escaped' = "Exception"
    /\ pc' = "crashed"
    /\ UNCHANGED logged

\* `except Exception` of run(): the error is printed and the loop goes on.
RunCatches ==
    /\ logged' = logged \cup {"run_error"}
    /\ pc' = "prompt"
    /\ UNCHANGED escaped

\* An exception leaves a handler: run() catches it, a direct caller gets it.
HandlerRaises ==
    IF entry = "run"
    THEN RunCatches
    ELSE /\ escaped' = "Exception"
         /\ pc' = "returned"
         /\ UNCHANGED logged

\* self.agent_executor.invoke: the executor asks the model (again, after a
\* tool, whose result it has taken).
AgentInvokeModel ==
    /\ pc = "executor"
    /\ Invoke("chat", "chat_wait")
    /\ details' = NoDetails
    /\ search' = NoSearch
    /\ UNCHANGED <<escaped, output, handler, lookups, toolCalls, logged>>
    /\ UNCHANGED agentVars
    /\ UNCHANGED loopVars

\* A variant with a memory that keeps the last exchange only.
ChatReturnsKeepsLast ==
    /\ pc = "chat_wait"
    /\ inflight' = inflight - 1
    /\ \E out \in Replies :
          /\ output' = out
          /\ history' = <<[input |-> userInput, output |-> out]>>
    /\ pc' = "interpret"
    /\ UNCHANGED <<escaped, handler, lookups, details, toolCalls, calls, logged,
                   search>>
    /\ UNCHANGED <<reads, turns, userInput>>
    /\ UNCHANGED agentVars

\* The model answers with text: the executor saves the exchange to its memory
\* and returns it as response["output"].
ChatReturns ==
    /\ pc = "chat_wait"
    /\ inflight' = inflight - 1
    /\ \E out \in Replies :
          /\ output' = out
          /\ history' = Append(history, [input |-> userInput, output |-> out])
    /\ pc' = "interpret"
    /\ UNCHANGED <<escaped, handler, lookups, details, toolCalls, calls, logged,
                   search>>
    /\ UNCHANGED <<reads, turns, userInput>>
    /\ UNCHANGED agentVars

\* The call, or the executor, raises.
ChatRaises ==
    /\ pc = "chat_wait"
    /\ inflight' = inflight - 1
    /\ RunCatches
    /\ UNCHANGED <<output, handler, lookups, details, toolCalls, calls, search>>
    /\ UNCHANGED agentVars
    /\ UNCHANGED loopVars

\* The model asks for the tool get_product_details: the executor runs
\* _safe_get_product_details and asks the model again.
ToolGetProductDetails ==
    /\ pc = "chat_wait"
    /\ toolCalls < MaxToolCalls
    /\ inflight' = inflight - 1
    /\ toolCalls' = toolCalls + 1
    /\ \E id \in ToolArgs :
          /\ details' = [called |-> TRUE, arg |-> id,
                         result |-> safe_get_product_details(products, id)]
          /\ logged' = IF Hashable(id) THEN logged
                       ELSE logged \cup {"details_failed"}
    /\ pc' = "executor"
    /\ UNCHANGED <<escaped, output, handler, lookups, calls, search>>
    /\ UNCHANGED agentVars
    /\ UNCHANGED loopVars

\* The model asks for the tool search_products: the executor runs
\* _safe_search_products.
ToolSearchProducts ==
    /\ pc = "chat_wait"
    /\ toolCalls < MaxToolCalls
    /\ inflight' = inflight - 1
    /\ toolCalls' = toolCalls + 1
    /\ search' = [NoSearch EXCEPT !.caller = "tool"]
    /\ pc' = "search"
    /\ UNCHANGED <<escaped, output, handler, lookups, details, calls, logged>>
    /\ UNCHANGED agentVars
    /\ UNCHANGED loopVars

\* ------------------------------------------------------- search_products
\* A variant of _handle_search_products without `if search_results:`: it
\* summarizes whatever the search returned.
SearchFinishedAlwaysSummarized(results, raised) ==
    /\ search' = [search EXCEPT !.results = results, !.replies = << >>,
                                !.done = TRUE, !.raised = raised]
    /\ logged' = IF raised THEN logged \cup {"search_failed"} ELSE logged
    /\ pc' = IF search.caller = "tool" THEN "executor" ELSE "summary"

\* search_products returns (or _safe_search_products returns [] for it): the
\* executor goes on, or _handle_search_products looks at the results.
SearchFinished(results, raised) ==
    /\ search' = [search EXCEPT !.results = results, !.replies = << >>,
                                !.done = TRUE, !.raised = raised]
    /\ IF search.caller = "tool"
       THEN /\ pc' = "executor"
            /\ logged' = IF raised THEN logged \cup {"search_failed"} ELSE logged
       ELSE IF TruthyList(results)
       THEN /\ pc' = "summary"
            /\ logged' = logged
       ELSE /\ pc' = ReturnPc
            /\ logged' = (IF raised THEN logged \cup {"search_failed"} ELSE logged)
                            \cup {"no_results"}

\* The query-enhancement call.
SearchInvokeEnhance ==
    /\ pc = "search"
    /\ Invoke("enhance", "enhance_wait")
    /\ UNCHANGED <<escaped, output, handler, lookups, details, toolCalls, logged,
                   search>>
    /\ UNCHANGED agentVars
    /\ UNCHANGED loopVars

EnhanceReturns ==
    /\ pc = "enhance_wait"
    /\ inflight' = inflight - 1
    /\ search' = [search EXCEPT !.idx = 1]
    /\ pc' = "score"
    /\ UNCHANGED <<escaped, output, handler, lookups, details, toolCalls, calls,
                   logged>>
    /\ UNCHANGED agentVars
    /\ UNCHANGED loopVars

\* A variant of _safe_search_products without the except clause: the
\* exception goes on to the caller of the wrapper.
EnhanceRaisesPropagates ==
    /\ pc = "enhance_wait"
    /\ inflight' = inflight - 1
    /\ search' = [search EXCEPT !.done = TRUE, !.raised = TRUE]
    /\ HandlerRaises
    /\ UNCHANGED <<output, handler, lookups, details, toolCalls, calls>>
    /\ UNCHANGED agentVars
    /\ UNCHANGED loopVars

\* The call raises: search_products is left, _safe_search_products logs and
\* returns [].
EnhanceRaises ==
    /\ pc = "enhance_wait"
    /\ inflight' = inflight - 1
    /\ SearchFinished(<< >>, TRUE)
    /\ UNCHANGED <<escaped, output, handler, lookups, details, toolCalls, calls>>
    /\ UNCHANGED agentVars
    /\ UNCHANGED loopVars

\* The loop over self.products.items(): one scoring call per product.
ScoreInvoke ==
    /\ pc = "score"
    /\ search.idx <= Len(ProductIds)
    /\ Invoke("score", "score_wait")
    /\ UNCHANGED <<escaped, output, handler, lookups, details, toolCalls, logged,
                   search>>
    /\ UNCHANGED agentVars
    /\ UNCHANGED loopVars

\* The results after the reply for product id: appended when the score parses
\* and is accepted, left as they are when parsing raises.
ResultsAfter(results, id, reply) ==
    LET score == ParseScore(reply)
    IN  IF score.ok /\ ScoreAccepted(score.value)
        THEN Append(results, ResultRecord(products, id))
        ELSE results

ScoreReturns ==
    /\ pc = "score_wait"
    /\ inflight' = inflight - 1
    /\ \E reply \in ScoreReplies :
          search' = [search EXCEPT
                        !.idx = @ + 1,
                        !.replies = Append(@, reply),
                        !.results = ResultsAfter(@, ProductIds[search.idx], reply)]
    /\ products' = StoreAfterAppend(products, ProductIds[search.idx])
    /\ pc' = "score"
    /\ UNCHANGED <<escaped, output, handler, lookups, details, toolCalls, calls,
                   logged>>
    /\ UNCHANGED <<entry, apiKey, hasLogger, loadEnv>>
    /\ UNCHANGED loopVars

ScoreRaises ==
    /\ pc = "score_wait"
    /\ inflight' = inflight - 1
    /\ SearchFinished(<< >>, TRUE)
    /\ UNCHANGED <<escaped, output, handler, lookups, details, toolCalls, calls>>
    /\ UNCHANGED agentVars
    /\ UNCHANGED loopVars

\* `return results` after the last product.
SearchReturns ==
    /\ pc = "score"
    /\ search.idx > Len(ProductIds)
    /\ SearchFinished(search.results, FALSE)
    /\ UNCHANGED <<escaped, output, handler, lookups, details, toolCalls, calls,
                   inflight>>
    /\ UNCHANGED agentVars
    /\ UNCHANGED loopVars

\* ------------------------------------------------------- the interpreter
\* A variant that tests for search_products first.
BranchSearchFirst(out) ==
    IF Contains(out, <<KwSearch>>) THEN "search"
    ELSE IF Contains(out, <<KwDetails>>) THEN "details"
    ELSE "print"

\* The branch run() takes on the reply.
Branch(out) ==
    IF Contains(out, <<KwDetails>>) THEN "details"
    ELSE IF Contains(out, <<KwSearch>>) THEN "search"
    ELSE "print"

\* run(), after the executor returned: one of the two handlers, or the reply
\* is printed.
Dispatch ==
    /\ pc = "interpret"
    /\ handler' = Branch(output)
    /\ IF Branch(output) = "details"
       THEN pc' = "h_details" /\ logged' = logged
       ELSE IF Branch(output) = "search"
       THEN pc' = "h_search" /\ logged' = logged
       ELSE pc' = "prompt" /\ logged' = logged \cup {"printed"}
    /\ UNCHANGED <<escaped, output, lookups, details, toolCalls, calls, inflight,
                   search>>
    /\ UNCHANGED agentVars
    /\ UNCHANGED loopVars

\* _handle_product_details, up to the summarization call.
HandleProductDetails ==
    /\ pc = "h_details"
    /\ LET arg == ExtractArgument(output, DetailsMarker)
           info == safe_get_product_details(products, arg.token)
       IN  IF ~arg.ok
           THEN /\ logged' = logged \cup {"details_called", "extract_error"}
                /\ pc' = ReturnPc
                /\ UNCHANGED <<lookups, details>>
           ELSE /\ lookups' = Append(lookups,
                      [fn |-> "get_product_details", arg |-> arg.token])
                /\ details' = [called |-> TRUE, arg |-> arg.token, result |-> info]
                /\ IF TruthyDict(info)
                   THEN /\ pc' = "summary"
                        /\ logged' = logged \cup {"details_called"}
                   ELSE /\ pc' = ReturnPc
                        /\ logged' = logged \cup {"details_called", "not_found"}
    /\ UNCHANGED <<escaped, output, handler, toolCalls, calls, inflight, search>>
    /\ UNCHANGED agentVars
    /\ UNCHANGED loopVars

\* _handle_search_products, up to the call of _safe_search_products.
HandleSearchProducts ==
    /\ pc = "h_search"
    /\ LET arg == ExtractArgument(output, SearchMarker)
       IN  IF ~arg.ok
           THEN /\ logged' = logged \cup {"search_called", "extract_error"}
                /\ pc' = ReturnPc
                /\ UNCHANGED <<lookups, search>>
           ELSE IF TermUsable(arg.token)
           THEN /\ lookups' = Append(lookups,
                      [fn |-> "search_products", arg |-> arg.token])
                /\ search' = [NoSearch EXCEPT !.caller = "handler"]
                /\ pc' = "search"
                /\ logged' = logged \cup {"search_called"}
           ELSE /\ logged' = logged \cup {"search_called", "no_keyword"}
                /\ pc' = ReturnPc
                /\ UNCHANGED <<lookups, search>>
    /\ UNCHANGED <<escaped, output, handler, details, toolCalls, calls, inflight>>
    /\ UNCHANGED agentVars
    /\ UNCHANGED loopVars

\* self.model.invoke(summary_prompt) of either handler.
SummaryInvoke ==
    /\ pc = "summary"
    /\ Invoke("summary", "summary_wait")
    /\ UNCHANGED <<escaped, output, handler, lookups, details, toolCalls, logged,
                   search>>
    /\ UNCHANGED agentVars
    /\ UNCHANGED loopVars

\* The summary and the full result are logged; the handler returns.
SummaryReturns ==
    /\ pc = "summary_wait"
    /\ inflight' = inflight - 1
    /\ logged' = logged \cup {"summary", "full_result"}
    /\ pc' = ReturnPc
    /\ UNCHANGED <<escaped, output, handler, lookups, details, toolCalls, calls,
                   search>>
    /\ UNCHANGED agentVars
    /\ UNCHANGED loopVars

\* The call raises: neither handler catches it.
SummaryRaises ==
    /\ pc = "summary_wait"
    /\ inflight' = inflight - 1
    /\ HandlerRaises
    /\ UNCHANGED <<output, handler, lookups, details, toolCalls, calls, search>>
    /\ UNCHANGED agentVars
    /\ UNCHANGED loopVars

\* --------------------------------------------------------- specifications
SearchStep ==
    \/ SearchInvokeEnhance
    \/ EnhanceReturns
    \/ EnhanceRaises
    \/ ScoreInvoke
    \/ ScoreReturns
    \/ ScoreRaises
    \/ SearchReturns

HandlerStep ==
    \/ HandleProductDetails
    \/ HandleSearchProducts
    \/ SummaryInvoke
    \/ SummaryReturns
    \/ SummaryRaises

\* The program: construction, then run().
Next ==
    \/ Construct
    \/ CallLoadEnvironment
    \/ Run
    \/ ReadInput
    \/ AgentInvokeModel
    \/ ChatReturns
    \/ ChatRaises
    \/ ToolGetProductDetails
    \/ ToolSearchProducts
    \/ Dispatch
    \/ SearchStep
    \/ HandlerStep

Spec == Init /\ [][Next]_vars

\* A handler called directly with a text.
NextDirect == SearchStep \/ HandlerStep

SpecDirect == InitDirect /\ [][NextDirect]_vars

\* ------------------------------------------------------------------ claims
\* run() is working on a line it has read.
InTurn ==
    pc \in {"executor", "chat_wait", "interpret", "h_details", "h_search",
            "search", "enhance_wait", "score", "score_wait", "summary",
            "summary_wait"}

\* The steps one search_products call can still take, at least.
SearchSteps == 2 * Len(ProductIds) + 3
SearchRank ==
    CASE pc = "search" -> SearchSteps
      [] pc = "enhance_wait" -> SearchSteps - 1
      [] pc = "score" -> 2 * (Len(ProductIds) + 1 - search.idx) + 1
      [] pc = "score_wait" -> 2 * (Len(ProductIds) + 1 - search.idx)
      [] OTHER -> 0

\* A measure of what is left of a turn: the executor's remaining tools, then
\* the interpreter, a handler, its search and its summary.
ExecutorRank == SearchSteps + 6 + (MaxToolCalls - toolCalls) * (SearchSteps + 2)
Rank ==
    CASE pc = "executor" -> ExecutorRank
      [] pc = "chat_wait" -> ExecutorRank - 1
      [] pc = "interpret" -> SearchSteps + 4
      [] pc \in {"h_details", "h_search"} -> SearchSteps + 3
      [] pc \in {"search", "enhance_wait", "score", "score_wait"} ->
            IF search.caller = "tool" THEN ExecutorRank + SearchRank
            ELSE 2 + SearchRank
      [] pc = "summary" -> 2
      [] pc = "summary_wait" -> 1
      [] OTHER -> 0

\* C1: run() returns only in the step that reads a line equal to the exit
\* keyword, and after any other line - whatever the executor, the model and
\* the handlers return or raise - the loop comes to the input prompt again:
\* within a turn a step is always possible, every step either stays in the
\* turn and lowers Rank or ends the turn at the prompt, and no exception
\* leaves run().
C1_ReturnsOnlyOnExit ==
    /\ [][pc' = "done" => pc = "prompt" /\ userInput' = ExitKeyword]_vars
    /\ [][InTurn =>
            /\ escaped' = "none"
            /\ IF InTurn' THEN Rank' < Rank ELSE pc' = "prompt"]_vars
    /\ [](InTurn => ENABLED Next)

\* A line other than the exit keyword was read, the turn raised, and the loop
\* is back at the prompt.
C1_Witness ==
    /\ pc = "prompt"
    /\ userInput # ExitKeyword
    /\ reads > 0
    /\ "run_error" \in logged

\* C2 as stated: a missing DEEPSEEK_API_KEY, a malformed reply and an absent
\* product are each caught where they happen, no exception reaches the
\* caller, and the loop goes on to the next input.
C2_AllFailuresCaught ==
    /\ escaped = "none"
    /\ pc # "crashed"
    /\ (loadEnv.called /\ ~loadEnv.keySet => loadEnv.exc = "none")

\* The failures of the interpreter that are handled inside a handler.
HandledFailures == {"extract_error", "not_found", "no_keyword", "no_results"}

\* C2, amended: a malformed reply or an absent product is caught inside the
\* handler (it is logged there, run()'s except clause is not reached), nothing
\* escapes and the loop is at the prompt, ready to read; a missing
\* DEEPSEEK_API_KEY is raised to the caller of _load_environment, and when
\* that caller is the constructor the program ends before run() starts.
C2_HandlerFailuresCaught ==
    /\ (logged \cap HandledFailures # {} /\ pc # "summary_wait" =>
            /\ pc = "prompt"
            /\ escaped = "none"
            /\ "run_error" \notin logged
            /\ ENABLED ReadInput)
    /\ (loadEnv.called /\ ~loadEnv.keySet => loadEnv.exc # "none")
    /\ (~apiKey => pc \in {"start", "crashed"})
    /\ (pc = "crashed" => ~apiKey /\ escaped # "none" /\ reads = 0)

\* An absent product was reported by _handle_product_details and the loop is
\* at the prompt.
C2_Witness ==
    /\ pc = "prompt"
    /\ handler = "details"
    /\ "not_found" \in logged
    /\ turns < MaxTurns

\* C3: whenever _load_environment is called with DEEPSEEK_API_KEY unset, the
\* exception its caller gets is a ValueError, also when the caller is
\* EcommerceAgent.__init__.
C3_LoadEnvironmentRaisesValueError ==
    loadEnv.called /\ ~loadEnv.keySet => loadEnv.exc = "ValueError"

\* C4: when the line read is the exit keyword, run() returns at once: that
\* read is the last one (one read per line, so a single read when the first
\* line is the exit keyword), and for that line no call of the executor or the
\* model, no handler, no tool and no product-store lookup happens.
C4_ExitReturnsAtOnce ==
    pc = "done" =>
        /\ userInput = ExitKeyword
        /\ reads = turns + 1
        /\ calls = ZeroCalls
        /\ inflight = 0
        /\ handler = "none"
        /\ toolCalls = 0
        /\ lookups = << >>
        /\ ~details.called
        /\ search = NoSearch
        /\ ~ENABLED Next

\* The first line read is the exit keyword.
C4_Witness ==
    /\ pc = "done"
    /\ reads = 1
    /\ turns = 0

\* The marker and the store function of a handler.
MarkerOf(h) == IF h = "details" THEN DetailsMarker ELSE SearchMarker
LookupOf(h) == IF h = "details" THEN "get_product_details" ELSE "search_products"

\* A handler was entered for this reply and has passed its extraction.
HandlerActed ==
    /\ handler \in {"details", "search"}
    /\ pc \notin {"interpret", "h_details", "h_search"}

\* Where the text after the first occurrence of the marker starts, and the
\* first double quote and the next occurrence of the marker from there on
\* (0 when there is none).
AfterMarker(text, marker) == FindFrom(text, marker, 1) + Len(marker)
NextQuote(text, marker) == FindFrom(text, <<QUOTE>>, AfterMarker(text, marker))
NextMarker(text, marker) == FindFrom(text, marker, AfterMarker(text, marker))

\* The characters between the end of the first occurrence of the marker and
\* the next double quote after it.
QuotedToken(text, marker) ==
    SubSeq(text, AfterMarker(text, marker), NextQuote(text, marker) - 1)

\* The characters between the end of the first occurrence of the marker and
\* whichever comes first: a double quote, the marker again, the end of text.
FirstToken(text, marker) ==
    LET stops == {i \in {NextQuote(text, marker), NextMarker(text, marker)} : i # 0}
                    \cup {Len(text) + 1}
        stop == CHOOSE i \in stops : \A j \in stops : i <= j
    IN  SubSeq(text, AfterMarker(text, marker), stop - 1)

\* C5 as stated: for a reply that contains the handler's marker (and a double
\* quote after it), every lookup the handler makes has as its argument the
\* characters between the end of the first occurrence of the marker and the
\* next double quote, and when these are not empty the handler makes exactly
\* one lookup.
C5_LookupWithFirstQuotedToken ==
    (/\ HandlerActed
     /\ Contains(output, MarkerOf(handler))
     /\ NextQuote(output, MarkerOf(handler)) # 0) =>
        LET token == QuotedToken(output, MarkerOf(handler))
            call == [fn |-> LookupOf(handler), arg |-> token]
        IN  /\ \A i \in 1..Len(lookups) : lookups[i] = call
            /\ token # << >> => lookups = <<call>>

\* C5, amended: for a reply that contains the handler's marker, the token is
\* the characters between the end of the first occurrence of the marker and
\* whichever comes first of the next double quote, the next occurrence of the
\* marker and the end of the reply; _handle_product_details makes exactly one
\* lookup, with that token, and _handle_search_products makes exactly one
\* with it when it is not empty and none when it is.
C5_LookupWithFirstPiece ==
    (HandlerActed /\ Contains(output, MarkerOf(handler))) =>
        LET token == FirstToken(output, MarkerOf(handler))
            call == [fn |-> LookupOf(handler), arg |-> token]
        IN  IF handler = "details" \/ token # << >>
            THEN lookups = <<call>>
            ELSE lookups = << >>

\* _handle_product_details has looked up a token that the marker, coming a
\* second time, cut short before any double quote.
C5_Witness ==
    /\ HandlerActed
    /\ handler = "details"
    /\ Contains(output, DetailsMarker)
    /\ NextQuote(output, DetailsMarker) # 0
    /\ Len(lookups) = 1
    /\ lookups[1].arg # << >>
    /\ lookups[1].arg # QuotedToken(output, DetailsMarker)

\* The reply yields no token: the marker is absent, or the token is empty.
NoToken ==
    \/ ~Contains(output, MarkerOf(handler))
    \/ FirstToken(output, MarkerOf(handler)) = << >>

\* The handler has returned to run() without raising, and run() is ready to
\* read the next line.
BackAtPrompt ==
    /\ pc = "prompt"
    /\ escaped = "none"
    /\ "run_error" \notin logged
    /\ ENABLED ReadInput

\* C6 as stated: when the reply names a capability and yields no token, the
\* handler makes no lookup and no summarization call, logs an extraction
\* error, raises nothing, and the conversation continues.
C6_NoTokenNoLookup ==
    (HandlerActed /\ NoToken) =>
        /\ lookups = << >>
        /\ calls.summary = 0
        /\ "extract_error" \in logged
        /\ BackAtPrompt

\* C6, amended: when the marker is absent the handler makes no lookup and no
\* summarization call and logs an extraction error; when the marker is there
\* with an empty token, _handle_search_products makes no lookup and warns that
\* it has no keyword, while _handle_product_details does look up the empty
\* identifier and, the catalog having none, warns that the product was not
\* found; in each case no summarization call is made, nothing is raised and
\* the conversation continues.
C6_NoTokenHandled ==
    (HandlerActed /\ NoToken) =>
        /\ calls.summary = 0
        /\ BackAtPrompt
        /\ IF ~Contains(output, MarkerOf(handler))
           THEN lookups = << >> /\ "extract_error" \in logged
           ELSE IF handler = "search"
           THEN /\ lookups = << >>
                /\ "no_keyword" \in logged
                /\ "extract_error" \notin logged
           ELSE /\ lookups = <<[fn |-> "get_product_details", arg |-> << >>]>>
                /\ "not_found" \in logged
                /\ "extract_error" \notin logged

\* _handle_product_details got a reply with the marker and an empty token.
C6_Witness ==
    /\ HandlerActed
    /\ handler = "details"
    /\ Contains(output, DetailsMarker)
    /\ FirstToken(output, DetailsMarker) = << >>
    /\ pc = "prompt"

\* C7: get_product_details returns, for an identifier that is a key of the
\* catalog, that key's record with the same fields and values and the
\* identifier under "id", and None for every other identifier.
C7_ExactMatchOrNone ==
    details.called =>
        IF details.arg \in DOMAIN products
        THEN /\ DOMAIN details.result = DOMAIN products[details.arg] \cup {"id"}
             /\ details.result.id = details.arg
             /\ \A f \in DOMAIN products[details.arg] :
                   details.result[f] = products[details.arg][f]
        ELSE IsNone(details.result)

\* The two-character key has been looked up and its record returned.
C7_Witness ==
    /\ details.called
    /\ details.arg = <<"a", "b">>
    /\ details.result.id = <<"a", "b">>

\* C8: search_products returns all and only the records whose score reply
\* parses to an integer above AgentConfig.min_match_score; a reply that does
\* not parse leaves its record out and the search goes on.
C8_ResultsAboveMinMatchScore ==
    (pc = "score" /\ search.idx > Len(ProductIds)) =>
        LET above == {i \in 1..Len(ProductIds) :
                        /\ ParseScore(search.replies[i]).ok
                        /\ ParseScore(search.replies[i]).value > min_match_score}
        IN  /\ Len(search.replies) = Len(ProductIds)
            /\ {search.results[k].id : k \in 1..Len(search.results)}
                  = {ProductIds[i] : i \in above}

\* The search_products lookups of the interpreter this turn.
HandlerSearches == {i \in 1..Len(lookups) : lookups[i].fn = "search_products"}

\* C9 as stated: within one turn at most one call is in flight, and the calls
\* are at most one for the chat reply, at most one per catalog product for
\* scoring and at most one for summarization, and no other.
C9_CallsPerTurn ==
    /\ inflight <= 1
    /\ calls.chat <= 1
    /\ calls.score <= Len(ProductIds)
    /\ calls.summary <= 1
    /\ calls.enhance = 0

\* C9, amended: within one turn at most one call is in flight; the executor
\* calls the model once and once more after each tool it runs; every run of
\* search_products, for a tool or for _handle_search_products, makes one
\* query-enhancement call and then at most one scoring call per catalog
\* product; a handler makes at most one summarization call, and only after
\* its lookup returned something.
C9_CallsPerTurnWithTools ==
    /\ inflight <= 1
    /\ inflight =
          (IF pc \in {"chat_wait", "enhance_wait", "score_wait", "summary_wait"}
           THEN 1 ELSE 0)
    /\ calls.chat <= 1 + toolCalls
    /\ calls.enhance <= toolCalls + Cardinality(HandlerSearches)
    /\ calls.score <= calls.enhance * Len(ProductIds)
    /\ calls.summary <= 1
    /\ calls.summary = 1 =>
          \/ handler = "details" /\ TruthyDict(details.result)
          \/ handler = "search" /\ search.done /\ TruthyList(search.results)

\* A turn with one chat call, one tool-free search over the whole catalog and
\* a summary has ended.
C9_Witness ==
    /\ pc = "prompt"
    /\ calls = [chat |-> 1, enhance |-> 1, score |-> Len(ProductIds), summary |-> 1]

\* C10: once ProductDatabase.__init__ has loaded the catalog, no step of the
\* program changes it.
C10_CatalogImmutable == [][pc # "start" => products' = products]_vars

\* Searches and lookups have run and returned records, and the catalog is
\* what was loaded.
C10_Witness ==
    /\ pc = "prompt"
    /\ turns = MaxTurns
    /\ search.done
    /\ Len(search.results) = Len(ProductIds)
    /\ products = Catalog

\* The step in which agent_executor.invoke returns this turn's reply.
ChatReturned == pc = "chat_wait" /\ pc' = "interpret"

\* The step that starts a turn: a line other than the exit keyword is read.
TurnStarts == pc = "prompt" /\ pc' = "executor"

\* C11: the conversation history is append-only and grows once per exchange:
\* the step in which the chat call returns appends that turn's user input and
\* reply, in that order, after the unchanged earlier entries; every other
\* step leaves the history as it is; a turn appends at most once; and a turn
\* starts from the same state whatever the turns before it did, apart from
\* the history (and the catalog, which never changes).
C11_HistoryAppendOnly ==
    /\ [][IF ChatReturned
          THEN history' = Append(history, [input |-> userInput, output |-> output'])
          ELSE history' = history]_vars
    /\ [][TurnStarts =>
            /\ output' = << >>
            /\ handler' = "none"
            /\ lookups' = << >>
            /\ details' = NoDetails
            /\ toolCalls' = 0
            /\ calls' = ZeroCalls
            /\ logged' = {}
            /\ search' = NoSearch
            /\ inflight' = 0
            /\ escaped' = "none"
            /\ products' = Catalog]_vars
    /\ [](Len(history) <= turns)
    /\ [](pc \in {"executor", "chat_wait"} => Len(history) < turns)

\* Two exchanges with different replies have been saved, the earlier one first,
\* and the second turn has run a handler to its end.
C11_Witness ==
    /\ pc = "prompt"
    /\ turns = 2
    /\ Len(history) = 2
    /\ history[1].output = <<"h", "i">>
    /\ history[2].output = output
    /\ handler = "search"
    /\ "summary" \in logged

\* The step in which the store's search_products raises inside
\* _safe_search_products.
SearchRaised == pc \in {"enhance_wait", "score_wait"} /\ search'.raised

\* The step in which the store's search_products returns its list.
SearchReturned == pc = "score" /\ search'.done

\* Where the caller of _safe_search_products goes on with the given list.
AfterSafeSearch(results) ==
    IF search.caller = "tool" THEN "executor"
    ELSE IF TruthyList(results) THEN "summary"
    ELSE ReturnPc

\* C12: _safe_search_products and _safe_get_product_details never propagate
\* an exception of the product store: when the store call returns, the
\* wrapper returns that result unchanged and logs no failure; when it raises,
\* the wrapper logs the error and returns [] (search) or None (details), and
\* the wrapper's caller goes on with that value.
C12_SafeWrappersAbsorb ==
    /\ [][SearchRaised =>
            /\ search'.done
            /\ search'.results = << >>
            /\ logged \cup {"search_failed"} \subseteq logged'
            /\ "run_error" \notin logged'
            /\ escaped' = "none"
            /\ pc' = AfterSafeSearch(<< >>)]_vars
    /\ [][SearchReturned =>
            /\ ~search'.raised
            /\ search'.results = search.results
            /\ "search_failed" \notin logged' \ logged
            /\ escaped' = "none"
            /\ pc' = AfterSafeSearch(search.results)]_vars
    /\ [](details.called =>
            /\ escaped = "none"
            /\ details.result =
                  (IF Hashable(details.arg)
                   THEN get_product_details(products, details.arg)
                   ELSE None)
            /\ ~Hashable(details.arg) => "details_failed" \in logged)
    /\ [][details'.called /\ ~details.called /\ Hashable(details'.arg) =>
            "details_failed" \notin logged' \ logged]_vars

\* The executor ran the search tool, the store raised, and the executor has
\* the empty list and goes on.
C12_Witness ==
    /\ pc = "executor"
    /\ search.caller = "tool"
    /\ search.done
    /\ search.raised
    /\ search.results = << >>
    /\ "search_failed" \in logged
    /\ escaped = "none"

\* What the interpreter did with this turn's reply, as its log shows.
BranchesRun == logged \cap {"details_called", "search_called", "printed"}

\* The functions of the product store the interpreter called this turn.
StoreCalls == {lookups[i].fn : i \in 1..Len(lookups)}

\* C13: once run() has dispatched on the reply, exactly one of the three
\* branches handles it, details first: a reply containing get_product_details
\* goes to _handle_product_details only, also when it contains
\* search_products; otherwise a reply containing search_products goes to
\* _handle_search_products only; otherwise the reply is printed as it was
\* returned and the interpreter calls neither the product store nor the model
\* (the turn's only searches are those of the executor's tools).
C13_OneBranchDetailsFirst ==
    /\ [](handler # "none" =>
            /\ output = history[Len(history)].output
            /\ IF Contains(output, <<KwDetails>>)
               THEN /\ handler = "details"
                    /\ BranchesRun \subseteq {"details_called"}
                    /\ StoreCalls \subseteq {"get_product_details"}
                    /\ search = NoSearch
               ELSE IF Contains(output, <<KwSearch>>)
               THEN /\ handler = "search"
                    /\ BranchesRun \subseteq {"search_called"}
                    /\ StoreCalls \subseteq {"search_products"}
                    /\ details = NoDetails
               ELSE /\ handler = "print"
                    /\ BranchesRun = {"printed"}
                    /\ StoreCalls = {}
                    /\ details = NoDetails
                    /\ search = NoSearch
                    /\ calls.summary = 0
                    /\ calls.enhance + calls.score > 0 => toolCalls > 0
                    /\ pc = "prompt")
    /\ [](handler # "none" /\ pc = "prompt" => Cardinality(BranchesRun) = 1)
    /\ [][pc = "interpret" =>
            /\ handler' # "none"
            /\ output' = output
            /\ pc' = (IF handler' = "details" THEN "h_details"
                      ELSE IF handler' = "search" THEN "h_search"
                      ELSE "prompt")]_vars

\* A reply naming both capabilities was handled by _handle_product_details,
\* which found no product_id argument in it, and the turn has ended.
C13_Witness ==
    /\ pc = "prompt"
    /\ Contains(output, <<KwSearch>>)
    /\ Contains(output, <<KwDetails>>)
    /\ handler = "details"
    /\ logged = {"details_called", "extract_error"}
    /\ lookups = << >>
====
